---- MODULE Spec2Model ----
(***************************************************************************)
(* Model of OpenAPIParser (src/src/openapi_parser.py): the walker that     *)
(* turns a loaded Swagger 2.0 document into a list of example requests.    *)
(*                                                                         *)
(* Representation of Python values:                                        *)
(*   - a str that the code concatenates, searches or rewrites is a         *)
(*     sequence of one-character strings; a str that is only stored and    *)
(*     compared (values of `in`, `type`, `format`, scheme names, header    *)
(*     names and header values) is a TLA+ string;                          *)
(*   - a dict that the code only looks keys up in is a function whose      *)
(*     DOMAIN is the set of keys present; a dict that the code iterates    *)
(*     (`.items()`) is a sequence of <<key, value>> pairs with distinct    *)
(*     keys, in insertion order;                                           *)
(*   - a scalar found in the document (an `example`, a `default`) is       *)
(*     tagged by its type: PyStr(s), PyInt(n), PyBool(b), PyNull, and a    *)
(*     synthesized JSON value adds PyList(seq) and PyDict(pairs);          *)
(*   - Optional[str] is a sequence of length at most one: None is <<>>.    *)
(***************************************************************************)
EXTENDS Integers, Sequences, FiniteSets, TLC

VARIABLES spec, loaded, base_url, returned, probe

vars == <<spec, loaded, base_url, returned, probe>>

-----------------------------------------------------------------------------
(* Bounds of the model. *)

\* number of extract_endpoints calls made on one parser
MaxCalls == 2

\* longest operation-level `parameters` list drawn for a document
MaxParams == 2

-----------------------------------------------------------------------------
(* Python values. *)

PyStr(s) == "str" :> s
PyInt(n) == "int" :> n
PyBool(b) == "bool" :> b
PyNull == "null" :> TRUE
PyList(l) == "list" :> l
PyDict(d) == "dict" :> d

IsStr(v) == "str" \in DOMAIN v
IsInt(v) == "int" \in DOMAIN v
IsBool(v) == "bool" \in DOMAIN v
IsNull(v) == "null" \in DOMAIN v
IsList(v) == "list" \in DOMAIN v
IsDict(v) == "dict" \in DOMAIN v

None == <<>>
Some(s) == <<s>>

\* dict.get(k, default) and `k in dict` for a looked-up dict
Has(d, k) == k \in DOMAIN d
Get(d, k, default) == IF k \in DOMAIN d THEN d[k] ELSE default

\* the same for an iterated (insertion-ordered) dict
OHas(d, k) == \E i \in 1..Len(d) : d[i][1] = k
OGet(d, k, default) ==
    IF OHas(d, k) THEN d[CHOOSE i \in 1..Len(d) : d[i][1] = k][2] ELSE default

\* d[k] = v on an insertion-ordered dict: an existing key keeps its place
OSet(d, k, v) ==
    IF OHas(d, k)
    THEN [i \in 1..Len(d) |-> IF d[i][1] = k THEN <<k, v>> ELSE d[i]]
    ELSE Append(d, <<k, v>>)

\* d[k] = v on a looked-up dict
Set(d, k, v) == [x \in DOMAIN d \cup {k} |-> IF x = k THEN v ELSE d[x]]

-----------------------------------------------------------------------------
(* str operations. *)

Digits == <<"0", "1", "2", "3", "4", "5", "6", "7", "8", "9">>

RECURSIVE NatToStr(_)
NatToStr(n) ==
    IF n < 10 THEN <<Digits[n + 1]>>
    ELSE NatToStr(n \div 10) \o <<Digits[(n % 10) + 1]>>

IntToStr(n) == IF n < 0 THEN <<"-">> \o NatToStr(-n) ELSE NatToStr(n)

\* str(v) / f"{v}" of a document scalar
ToStr(v) ==
    IF IsStr(v) THEN v.str
    ELSE IF IsInt(v) THEN IntToStr(v.int)
    ELSE IF IsBool(v) THEN (IF v.bool THEN <<"T", "r", "u", "e">>
                                      ELSE <<"F", "a", "l", "s", "e">>)
    ELSE <<"N", "o", "n", "e">>

StartsWith(s, prefix) ==
    Len(s) >= Len(prefix) /\ SubSeq(s, 1, Len(prefix)) = prefix

EndsWith(s, suffix) ==
    Len(s) >= Len(suffix) /\ SubSeq(s, Len(s) - Len(suffix) + 1, Len(s)) = suffix

\* `sub in s`
Contains(s, sub) ==
    \E i \in 1..(Len(s) - Len(sub) + 1) : SubSeq(s, i, i + Len(sub) - 1) = sub

\* s.rstrip(c)
RECURSIVE RStrip(_, _)
RStrip(s, c) ==
    IF s # <<>> /\ s[Len(s)] = c THEN RStrip(SubSeq(s, 1, Len(s) - 1), c) ELSE s

\* s.replace(old, new), old non-empty: leftmost non-overlapping occurrences
RECURSIVE Replace(_, _, _)
Replace(s, old, new) ==
    IF Len(s) < Len(old) THEN s
    ELSE IF SubSeq(s, 1, Len(old)) = old
         THEN new \o Replace(SubSeq(s, Len(old) + 1, Len(s)), old, new)
         ELSE <<s[1]>> \o Replace(Tail(s), old, new)

\* sep.join(parts)
RECURSIVE Join(_, _)
Join(parts, sep) ==
    IF parts = <<>> THEN <<>>
    ELSE IF Len(parts) = 1 THEN parts[1]
    ELSE parts[1] \o sep \o Join(Tail(parts), sep)

\* s.split(c)[-1]: what follows the last c (all of s when c does not occur)
RECURSIVE LastSegment(_, _)
LastSegment(s, c) ==
    IF s = <<>> \/ s[Len(s)] = c THEN <<>>
    ELSE LastSegment(SubSeq(s, 1, Len(s) - 1), c) \o <<s[Len(s)]>>

\* f"{{{name}}}" and f"<{name}>"
Braced(name) == <<"{">> \o name \o <<"}">>
Placeholder(name) == <<"<">> \o name \o <<">">>

-----------------------------------------------------------------------------
(* String literals of the code. *)

HTTPS == <<"h", "t", "t", "p", "s">>
SchemeSep == <<":", "/", "/">>
Slash == <<"/">>
Bearer == <<"B", "e", "a", "r", "e", "r">>
DefinitionsPrefix ==
    <<"#", "/", "d", "e", "f", "i", "n", "i", "t", "i", "o", "n", "s", "/">>

-----------------------------------------------------------------------------
(* OpenAPIParser._build_base_url *)

BuildBaseUrl(doc) ==
    LET scheme == Get(doc, "schemes", <<HTTPS>>)[1]
        host == Get(doc, "host", <<>>)
        base_path == Get(doc, "basePath", <<>>)
    IN  scheme \o SchemeSep \o host \o base_path

-----------------------------------------------------------------------------
(* OpenAPIParser._get_security_headers *)

\* variant: the document's list is appended to the operation's
EffectiveSecurityMerged(doc, operation) ==
    Get(operation, "security", <<>>) \o Get(doc, "security", <<>>)

\* `if not security:` falls back to the document's list
EffectiveSecurity(doc, operation) ==
    LET security == Get(operation, "security", <<>>)
    IN  IF security = <<>> THEN Get(doc, "security", <<>>) ELSE security

\* the value written for one scheme definition
TokenValue(sec_def) ==
    IF Contains(Get(sec_def, "description", <<>>), Bearer)
    THEN "Bearer <your-token>"
    ELSE "<your-token>"

\* variant: an apiKey scheme adds its header wherever the key is carried
SchemeHeaderAnyLocation(doc, headers, sec_name) ==
    LET security_defs == Get(doc, "securityDefinitions", <<>>)
    IN  IF sec_name \in DOMAIN security_defs
        THEN LET sec_def == security_defs[sec_name]
             IN  IF Get(sec_def, "type", "") = "apiKey"
                 THEN OSet(headers, Get(sec_def, "name", ""), TokenValue(sec_def))
                 ELSE headers
        ELSE headers

\* body of the inner loop: one scheme name of one requirement
SchemeHeader(doc, headers, sec_name) ==
    LET security_defs == Get(doc, "securityDefinitions", <<>>)
    IN  IF sec_name \in DOMAIN security_defs
        THEN LET sec_def == security_defs[sec_name]
             IN  IF Get(sec_def, "type", "") = "apiKey"
                    /\ Get(sec_def, "in", "") = "header"
                 THEN OSet(headers, Get(sec_def, "name", ""), TokenValue(sec_def))
                 ELSE headers
        ELSE headers

\* `for sec_name, sec_value in sec.items()`
RECURSIVE RequirementHeaders(_, _, _)
RequirementHeaders(doc, headers, sec) ==
    IF sec = <<>> THEN headers
    ELSE RequirementHeaders(doc, SchemeHeader(doc, headers, sec[1][1]), Tail(sec))

\* `for sec in security`
RECURSIVE SecurityLoop(_, _, _)
SecurityLoop(doc, headers, security) ==
    IF security = <<>> THEN headers
    ELSE SecurityLoop(doc, RequirementHeaders(doc, headers, security[1]),
                      Tail(security))

GetSecurityHeaders(doc, operation) ==
    SecurityLoop(doc, <<>>, EffectiveSecurity(doc, operation))

-----------------------------------------------------------------------------
(* OpenAPIParser._build_url *)

\* urljoin(base, rel) for a base ending in "/" whose host is not empty and a
\* relative reference that is a plain path (no scheme, no leading "/", no
\* dot segment, no "?" or "#"): the reference replaces what follows the
\* last "/" of the base
UrlJoin(base, rel) ==
    SubSeq(base, 1, Len(base) - Len(LastSegment(base, "/"))) \o rel

JoinPath(base, path) ==
    IF StartsWith(path, Slash)
    THEN RStrip(base, "/") \o path
    ELSE UrlJoin(RStrip(base, "/") \o Slash, path)

\* variant: the example is never looked at
PathValueNoExample(param) ==
    Placeholder(Get(param, "name", <<>>))

\* the text substituted for a path parameter
PathValue(param) ==
    LET param_name == Get(param, "name", <<>>)
    IN  ToStr(Get(param, "example", PyStr(Placeholder(param_name))))

\* variant: the default is preferred to the example
QueryValueDefaultFirst(param) ==
    LET param_name == Get(param, "name", <<>>)
    IN  ToStr(Get(param, "default",
                  Get(param, "example", PyStr(Placeholder(param_name)))))

\* the text appended for a query parameter
QueryValue(param) ==
    LET param_name == Get(param, "name", <<>>)
    IN  ToStr(Get(param, "example",
                  Get(param, "default", PyStr(Placeholder(param_name)))))

\* first loop: replace path parameters, in list order
RECURSIVE ReplacePathParams(_, _)
ReplacePathParams(url, parameters) ==
    IF parameters = <<>> THEN url
    ELSE LET param == Head(parameters)
         IN  IF Get(param, "in", "") = "path"
             THEN ReplacePathParams(
                      Replace(url, Braced(Get(param, "name", <<>>)),
                              PathValue(param)),
                      Tail(parameters))
             ELSE ReplacePathParams(url, Tail(parameters))

\* second loop: collect "name=value" of the query parameters
RECURSIVE QueryParams(_)
QueryParams(parameters) ==
    IF parameters = <<>> THEN <<>>
    ELSE LET param == Head(parameters)
         IN  IF Get(param, "in", "") = "query"
             THEN <<Get(param, "name", <<>>) \o <<"=">> \o QueryValue(param)>>
                  \o QueryParams(Tail(parameters))
             ELSE QueryParams(Tail(parameters))

AppendQuery(url, query_params) ==
    IF query_params # <<>>
    THEN url \o <<"?">> \o Join(query_params, <<"&">>)
    ELSE url

BuildUrl(base, path, operation) ==
    LET parameters == Get(operation, "parameters", <<>>)
    IN  AppendQuery(ReplacePathParams(JoinPath(base, path), parameters),
                    QueryParams(parameters))

-----------------------------------------------------------------------------
(* json.dumps(value, indent=2) *)

\* a str inside JSON text: the quote and the backslash are escaped (the
\* documents of this model hold no control or non-ASCII character)
RECURSIVE JsonEscape(_)
JsonEscape(s) ==
    IF s = <<>> THEN <<>>
    ELSE (IF s[1] \in {"\"", "\\"} THEN <<"\\", s[1]>> ELSE <<s[1]>>)
         \o JsonEscape(Tail(s))

JsonString(s) == <<"\"">> \o JsonEscape(s) \o <<"\"">>

RECURSIVE Indent(_)
Indent(level) == IF level = 0 THEN <<>> ELSE <<" ", " ">> \o Indent(level - 1)

RECURSIVE JsonDumps(_, _)
JsonDumps(v, level) ==
    LET open == <<"\n">> \o Indent(level + 1)
        sep == <<",">> \o open
        close == <<"\n">> \o Indent(level)
    IN  IF IsStr(v) THEN JsonString(v.str)
        ELSE IF IsInt(v) THEN IntToStr(v.int)
        ELSE IF IsBool(v)
             THEN (IF v.bool THEN <<"t", "r", "u", "e">>
                             ELSE <<"f", "a", "l", "s", "e">>)
        ELSE IF IsNull(v) THEN <<"n", "u", "l", "l">>
        ELSE IF IsList(v)
             THEN IF v.list = <<>> THEN <<"[", "]">>
                  ELSE <<"[">> \o open
                       \o Join([i \in 1..Len(v.list) |->
                                   JsonDumps(v.list[i], level + 1)], sep)
                       \o close \o <<"]">>
        ELSE IF v.dict = <<>> THEN <<"{", "}">>
             ELSE <<"{">> \o open
                  \o Join([i \in 1..Len(v.dict) |->
                              JsonString(v.dict[i][1]) \o <<":", " ">>
                              \o JsonDumps(v.dict[i][2], level + 1)], sep)
                  \o close \o <<"}">>

-----------------------------------------------------------------------------
(* OpenAPIParser._get_request_body *)

\* the string / integer / boolean / object cases, shared by both branches;
\* a `type` outside the five that are handled assigns nothing
ScalarPropValue(prop_name, prop_schema) ==
    LET prop_type == Get(prop_schema, "type", "string")
    IN  IF prop_type = "string"
        THEN IF Get(prop_schema, "format", "") = "email"
             THEN Some(PyStr(<<"u", "s", "e", "r", "@", "e", "x", "a", "m",
                               "p", "l", "e", ".", "c", "o", "m">>))
             ELSE IF Get(prop_schema, "format", "") = "date-time"
             THEN Some(PyStr(<<"2", "0", "2", "4", "-", "1", "2", "-", "3",
                               "1", "T", "2", "3", ":", "5", "9", ":", "5",
                               "9", "Z">>))
             ELSE Some(PyStr(Placeholder(prop_name)))
        ELSE IF prop_type = "integer"
             THEN Some(Get(prop_schema, "default", PyInt(0)))
        ELSE IF prop_type = "boolean"
             THEN Some(Get(prop_schema, "default", PyBool(FALSE)))
        ELSE IF prop_type = "object" THEN Some(PyDict(<<>>))
        ELSE None

\* variant: a missing definition is taken for an object without properties
LookupDefinitionEmptyObject(doc, name) ==
    Get(Get(doc, "definitions", <<>>), name, "properties" :> <<>>)

\* `self.spec.get('definitions', {}).get(name, {})`
LookupDefinition(doc, name) == Get(Get(doc, "definitions", <<>>), name, <<>>)

\* lines 107-112: one example object from the item definition's properties
RECURSIVE ItemExample(_, _)
ItemExample(item_example, properties) ==
    IF properties = <<>> THEN item_example
    ELSE LET item_prop == properties[1][1]
             item_prop_schema == properties[1][2]
         IN  ItemExample(
                 OSet(item_example, item_prop,
                      IF Has(item_prop_schema, "example")
                      THEN item_prop_schema["example"]
                      ELSE PyStr(Placeholder(item_prop))),
                 Tail(properties))

\* lines 100-117: `type: array` in the referenced branch
RefArrayValue(doc, prop_schema) ==
    LET items == Get(prop_schema, "items", <<>>)
    IN  IF Get(items, "$ref", <<>>) # <<>>
        THEN LET item_def_name == LastSegment(items["$ref"], "/")
                 item_def == LookupDefinition(doc, item_def_name)
             IN  IF Has(item_def, "properties")
                 THEN PyList(<<PyDict(ItemExample(<<>>, item_def["properties"]))>>)
                 ELSE PyList(<<>>)
        ELSE PyList(<<>>)

\* lines 81-123: the value assigned to example[prop_name], if any, when the
\* body schema references a definition
RefPropValue(doc, prop_name, prop_schema) ==
    IF Has(prop_schema, "example") THEN Some(prop_schema["example"])
    ELSE IF Get(prop_schema, "type", "string") = "array"
         THEN Some(RefArrayValue(doc, prop_schema))
         ELSE ScalarPropValue(prop_name, prop_schema)

\* lines 132-157: the same for an inline object schema
InlinePropValue(doc, prop_name, prop_schema) ==
    IF Has(prop_schema, "example") THEN Some(prop_schema["example"])
    ELSE IF Get(prop_schema, "type", "string") = "array"
         THEN Some(PyList(<<>>))
         ELSE ScalarPropValue(prop_name, prop_schema)

\* `for prop_name, prop_schema in definition.get('properties', {}).items()`;
\* the trailing `required` guard changes nothing (it ends the iteration
\* that is ending anyway)
RECURSIVE RefExample(_, _, _)
RefExample(doc, example, properties) ==
    IF properties = <<>> THEN example
    ELSE LET value == RefPropValue(doc, properties[1][1], properties[1][2])
         IN  RefExample(doc,
                        IF value = None THEN example
                        ELSE OSet(example, properties[1][1], value[1]),
                        Tail(properties))

RECURSIVE InlineExample(_, _, _)
InlineExample(doc, example, properties) ==
    IF properties = <<>> THEN example
    ELSE LET value == InlinePropValue(doc, properties[1][1], properties[1][2])
         IN  InlineExample(doc,
                           IF value = None THEN example
                           ELSE OSet(example, properties[1][1], value[1]),
                           Tail(properties))

\* lines 65-159: what one body parameter returns; None when the loop goes
\* on to the next parameter
BodyOfParam(doc, param) ==
    LET schema == Get(param, "schema", <<>>)
        ref == Get(schema, "$ref", <<>>)
    IN  IF Has(schema, "example")
        THEN Some(JsonDumps(schema["example"], 0))
        ELSE IF ref # <<>> /\ StartsWith(ref, DefinitionsPrefix)
        THEN LET def_name == LastSegment(ref, "/")
                 definition == LookupDefinition(doc, def_name)
             IN  IF Has(definition, "example")
                 THEN Some(JsonDumps(definition["example"], 0))
                 ELSE IF Has(definition, "properties")
                 THEN Some(JsonDumps(
                          PyDict(RefExample(doc, <<>>, definition["properties"])), 0))
                 ELSE None
        ELSE IF Has(schema, "type") /\ schema["type"] = "object"
                /\ Has(schema, "properties")
        THEN Some(JsonDumps(
                 PyDict(InlineExample(doc, <<>>, schema["properties"])), 0))
        ELSE None

\* `for param in parameters: if param.get('in') == 'body': ...`, then
\* `return None`
RECURSIVE BodyLoop(_, _)
BodyLoop(doc, parameters) ==
    IF parameters = <<>> THEN None
    ELSE LET param == Head(parameters)
             body == IF Get(param, "in", "") = "body"
                     THEN BodyOfParam(doc, param) ELSE None
         IN  IF body # None THEN body ELSE BodyLoop(doc, Tail(parameters))

GetRequestBody(doc, operation) ==
    BodyLoop(doc, Get(operation, "parameters", <<>>))

-----------------------------------------------------------------------------
(* OpenAPIParser.extract_endpoints *)

LowerCase ==
    <<"a", "b", "c", "d", "e", "f", "g", "h", "i", "j", "k", "l", "m", "n", "o", "p", "q", "r", "s", "t", "u", "v", "w", "x", "y", "z">>
UpperCase ==
    <<"A", "B", "C", "D", "E", "F", "G", "H", "I", "J", "K", "L", "M", "N", "O", "P", "Q", "R", "S", "T", "U", "V", "W", "X", "Y", "Z">>

\* str.upper() on ASCII text
Upper(s) ==
    [i \in 1..Len(s) |->
        IF \E k \in 1..26 : LowerCase[k] = s[i]
        THEN UpperCase[CHOOSE k \in 1..26 : LowerCase[k] = s[i]]
        ELSE s[i]]

ParametersKey == <<"p", "a", "r", "a", "m", "e", "t", "e", "r", "s">>

\* variant: the upper-case spelling of a method key is accepted too
HttpMethodsAnyCase ==
    {<<"g", "e", "t">>, <<"p", "o", "s", "t">>, <<"p", "u", "t">>,
     <<"p", "a", "t", "c", "h">>, <<"d", "e", "l", "e", "t", "e">>,
     <<"h", "e", "a", "d">>, <<"o", "p", "t", "i", "o", "n", "s">>,
     <<"G", "E", "T">>}

\* ['get', 'post', 'put', 'patch', 'delete', 'head', 'options']
HttpMethods ==
    {<<"g", "e", "t">>, <<"p", "o", "s", "t">>,
     <<"p", "u", "t">>, <<"p", "a", "t", "c", "h">>,
     <<"d", "e", "l", "e", "t", "e">>,
     <<"h", "e", "a", "d">>, <<"o", "p", "t", "i", "o", "n", "s">>}

\* `all_params = common_params + op_params`
MergeParameters(common_params, op_params) == common_params \o op_params

\* line 259: `operation['parameters'] = all_params` writes into the document
MergedOperation(common_params, operation) ==
    Set(operation, "parameters",
        MergeParameters(common_params, Get(operation, "parameters", <<>>)))

\* variant: the header is set whether or not there is a body
WithContentTypeAlways(headers, request_body) ==
    OSet(headers, "Content-Type", "application/json")

\* lines 269-270: `if request_body:` is false for None and for ""
WithContentType(headers, request_body) ==
    IF request_body # None /\ request_body[1] # <<>>
    THEN OSet(headers, "Content-Type", "application/json")
    ELSE headers

\* lines 261-287, on the operation as rewritten by line 259
MakeEndpoint(doc, base, path, method, operation) ==
    LET url == BuildUrl(base, path, operation)
        headers == GetSecurityHeaders(doc, operation)
        request_body == GetRequestBody(doc, operation)
    IN  [method |-> Upper(method),
         url |-> url,
         headers |-> WithContentType(headers, request_body),
         body |-> request_body,
         summary |-> Get(operation, "summary", ""),
         description |-> Get(operation, "description", ""),
         operation_id |-> Get(operation, "operationId", ""),
         path |-> path,
         tags |-> Get(operation, "tags", <<>>)]

\* the inner loop over one path item: the endpoints it appends
RECURSIVE PathItemEndpoints(_, _, _, _, _)
PathItemEndpoints(doc, base, path, common_params, entries) ==
    IF entries = <<>> THEN <<>>
    ELSE LET method == entries[1][1]
             operation == entries[1][2]
         IN  (IF method \notin HttpMethods THEN <<>>
              ELSE <<MakeEndpoint(doc, base, path, method,
                                  MergedOperation(common_params, operation))>>)
             \o PathItemEndpoints(doc, base, path, common_params, Tail(entries))

\* the inner loop over one path item: the path item it leaves in the document
PathItemAfter(path_item) ==
    LET common_params == OGet(path_item, ParametersKey, <<>>)
    IN  [j \in 1..Len(path_item) |->
            IF path_item[j][1] \in HttpMethods
            THEN <<path_item[j][1], MergedOperation(common_params, path_item[j][2])>>
            ELSE path_item[j]]

\* the outer loop: the list returned
RECURSIVE PathsEndpoints(_, _, _)
PathsEndpoints(doc, base, paths) ==
    IF paths = <<>> THEN <<>>
    ELSE LET path == paths[1][1]
             path_item == paths[1][2]
             common_params == OGet(path_item, ParametersKey, <<>>)
         IN  PathItemEndpoints(doc, base, path, common_params, path_item)
             \o PathsEndpoints(doc, base, Tail(paths))

\* the outer loop: the document it leaves behind
SpecAfterExtract(doc) ==
    IF Has(doc, "paths")
    THEN [doc EXCEPT !["paths"] =
             [i \in 1..Len(doc["paths"]) |->
                 <<doc["paths"][i][1], PathItemAfter(doc["paths"][i][2])>>]]
    ELSE doc

ExtractEndpointsResult(doc, base) ==
    PathsEndpoints(doc, base, Get(doc, "paths", <<>>))

-----------------------------------------------------------------------------
(* The documents the parser is constructed on. *)

EmptyDict == <<>>

\* sequences over S of length at most n
ListsUpTo(S, n) == UNION {[1..k -> S] : k \in 0..n}

Param(in, name) == ("in" :> in) @@ ("name" :> name)

\* parameters that _build_url reads
P_i == Param("path", <<"i">>)
P_i7 == Param("path", <<"i">>) @@ ("example" :> PyInt(7))
P_j == Param("path", <<"j">>) @@ ("example" :> PyStr(<<"{", "i", "}">>))
Q_q == Param("query", <<"q">>)
Q_q1 == Param("query", <<"q">>) @@ ("example" :> PyInt(1))
                               @@ ("default" :> PyStr(<<"x">>))
Q_r == Param("query", <<"r">>) @@ ("default" :> PyStr(<<"d">>))

UrlParams == {P_i, P_i7, P_j, Q_q, Q_q1, Q_r}

PathTemplates ==
    {<<"/", "u", "/", "{", "i", "}">>,
     <<"/", "{", "i", "}", "/", "{", "j", "}", "/", "{", "i", "}">>,
     <<"/", "s", "?", "t">>}

\* definitions table
Ref(name) == DefinitionsPrefix \o name

\* properties given both inline (B_inline) and as definition I
InlineProperties ==
    << <<<<"d">>, ("type" :> "string") @@ ("format" :> "date-time")>>,
       <<<<"o">>, ("type" :> "boolean")>>,
       <<<<"l">>, ("type" :> "array") @@ ("items" :> ("$ref" :> Ref(<<"T">>)))>> >>

Definitions ==
    (<<"U">> :>
        (("required" :> <<<<"n">>, <<"f">>>>) @@
         ("properties" :>
            << <<<<"n">>, ("type" :> "string")>>,
               <<<<"a">>, ("type" :> "integer") @@ ("default" :> PyInt(3))>>,
               <<<<"m">>, ("format" :> "email")>>,
               <<<<"l">>, ("type" :> "array")
                           @@ ("items" :> ("$ref" :> Ref(<<"T">>)))>>,
               <<<<"f">>, ("type" :> "number")>> >>)))
    @@
    (<<"T">> :>
        ("properties" :>
            << <<<<"t">>, ("type" :> "integer")>>,
               <<<<"e">>, ("example" :> PyBool(TRUE))>> >>))
    @@
    (<<"E">> :>
        (("example" :> PyDict(<<<<<<"k">>, PyStr(<<"v">>)>>>>)) @@
         ("properties" :> << <<<<"n">>, ("type" :> "string")>> >>)))
    @@
    (<<"X">> :> ("type" :> "string"))
    @@
    (<<"I">> :> ("properties" :> InlineProperties))

BodyParam(schema) == ("in" :> "body") @@ ("name" :> <<"b">>) @@ ("schema" :> schema)

B_example == BodyParam("example" :> PyDict(<<<<<<"a">>, PyInt(1)>>>>))
B_missing == BodyParam("$ref" :> Ref(<<"M">>))
B_ref == BodyParam("$ref" :> Ref(<<"U">>))
B_refexample == BodyParam("$ref" :> Ref(<<"E">>))
B_noprops == BodyParam("$ref" :> Ref(<<"X">>))
B_inline == BodyParam(("type" :> "object") @@ ("properties" :> InlineProperties))
B_string == BodyParam("type" :> "string")
B_noschema == ("in" :> "body") @@ ("name" :> <<"b">>)

BodyParams ==
    {B_example, B_missing, B_ref, B_refexample, B_noprops, B_inline,
     B_string, B_noschema}

\* security scheme table
SecurityDefinitions ==
    ("bearer" :> (("type" :> "apiKey") @@ ("in" :> "header")
                  @@ ("name" :> "Authorization")
                  @@ ("description" :> <<"a", " ">> \o Bearer \o <<" ", "t">>)))
    @@
    ("key" :> (("type" :> "apiKey") @@ ("in" :> "header")
               @@ ("name" :> "X-API-Key")))
    @@
    ("plain" :> (("type" :> "apiKey") @@ ("in" :> "header")
                 @@ ("name" :> "Authorization")
                 @@ ("description" :> <<"b", "e", "a", "r", "e", "r">>)))
    @@
    ("basic" :> ("type" :> "basic"))
    @@
    ("oauth" :> (("type" :> "oauth2") @@ ("in" :> "header")
                 @@ ("name" :> "X-OAuth")))
    @@
    ("inquery" :> (("type" :> "apiKey") @@ ("in" :> "query")
                   @@ ("name" :> "api_key")))
    @@
    ("ctype" :> (("type" :> "apiKey") @@ ("in" :> "header")
                 @@ ("name" :> "Content-Type")))

\* a requirement: scheme name -> scope list; "ghost" is defined nowhere
Requirement(names) == [i \in 1..Len(names) |-> <<names[i], <<>>>>]

SchemeNames == {"bearer", "key", "plain", "basic", "oauth", "inquery", "ghost"}

SecurityLists ==
    {<<>>, <<EmptyDict>>}
    \cup {<<Requirement(<<a>>)>> : a \in SchemeNames}
    \cup {<<Requirement(<<"key", "bearer">>)>>,
          <<Requirement(<<"bearer">>), Requirement(<<"plain">>)>>,
          <<Requirement(<<"plain", "bearer">>)>>}

\* method and other keys of a path item
Key_get == <<"g", "e", "t">>
Key_post == <<"p", "o", "s", "t">>
Key_delete == <<"d", "e", "l", "e", "t", "e">>
Key_GET == <<"G", "E", "T">>
Key_ext == <<"x", "-", "e", "x", "t">>

Op(parameters) ==
    IF parameters = <<>> THEN EmptyDict ELSE "parameters" :> parameters

PathItem(common_params, method, operation) ==
    IF common_params = <<>> THEN <<<<method, operation>>>>
    ELSE <<<<ParametersKey, common_params>>, <<method, operation>>>>

BaseDoc ==
    ("host" :> <<"h">>) @@ ("definitions" :> Definitions)
    @@ ("securityDefinitions" :> SecurityDefinitions)

\* one path, one operation: path-level and operation-level URL parameters
UrlDocuments ==
    {BaseDoc @@ ("paths" :> <<<<path, PathItem(common, Key_get, Op(params))>>>>) :
        path \in PathTemplates,
        common \in ListsUpTo(UrlParams, 1),
        params \in ListsUpTo(UrlParams, MaxParams)}

\* one path, one operation: path-level and operation-level body parameters
BodyDocuments ==
    {BaseDoc @@ ("paths" :> <<<<<<"/", "b">>, PathItem(common, Key_post, Op(params))>>>>) :
        common \in ListsUpTo(BodyParams, 1),
        params \in ListsUpTo(BodyParams, MaxParams)}

\* operation-level and document-level security
SecurityDocuments ==
    {(IF doc_sec = <<EmptyDict>> THEN BaseDoc
      ELSE BaseDoc @@ ("security" :> doc_sec))
     @@ ("paths" :> <<<<<<"/", "s">>,
            <<<<Key_get, IF op_sec = <<EmptyDict>> THEN EmptyDict
                         ELSE "security" :> op_sec>>>>>>>>) :
        doc_sec \in SecurityLists, op_sec \in SecurityLists}

\* body parameters whose example is null or the empty string
B_null == BodyParam("example" :> PyNull)
B_empty == BodyParam("example" :> PyStr(<<>>))

\* one operation with security requirements and a body parameter
HeaderBodyDocuments ==
    {BaseDoc @@ ("security" :> <<Requirement(<<"bearer">>)>>)
     @@ ("paths" :> <<<<<<"/", "c">>,
            <<<<Key_post, (IF op_sec = <<>> THEN EmptyDict
                           ELSE "security" :> op_sec) @@ Op(params)>>>>>>>>) :
        op_sec \in {<<>>, <<Requirement(<<"key", "bearer">>)>>,
                    <<Requirement(<<"ctype", "key">>)>>,
                    <<Requirement(<<"key">>), Requirement(<<"ctype">>)>>,
                    <<Requirement(<<"basic">>)>>},
        params \in {<<>>, <<B_example>>, <<B_missing>>, <<B_ref>>, <<B_null>>,
                    <<B_empty>>, <<Q_q, B_inline>>}}

\* scheme, host and basePath given, empty or omitted
BaseUrlDocuments ==
    {schemes @@ host @@ base_path
     @@ ("paths" :> <<<<path, <<<<Key_get, EmptyDict>>>>>>>>) :
        schemes \in {EmptyDict, "schemes" :> <<<<"h", "t", "t", "p">>, HTTPS>>},
        host \in {EmptyDict, "host" :> <<>>, "host" :> <<"h">>},
        base_path \in {EmptyDict, "basePath" :> <<>>, "basePath" :> <<"/">>,
                       "basePath" :> <<"/", "v">>, "basePath" :> <<"/", "v", "/">>},
        path \in {<<"/", "u">>, <<"/">>}}
    \cup
    {("host" :> <<"h">>) @@ base_path
     @@ ("paths" :> <<<<<<"u", "/", "{", "i", "}">>,
                        <<<<Key_get, Op(<<P_i7>>)>>>>>>>>) :
        base_path \in {EmptyDict, "basePath" :> <<"/", "v">>,
                       "basePath" :> <<"/", "v", "/">>}}

\* several paths and keys, in varied order
TaggedOp == ("tags" :> <<"t">>) @@ ("summary" :> "s") @@ ("operationId" :> "o")

KeyDocuments ==
    {BaseDoc @@ ("paths" :>
        <<<<<<"/", "a">>, [k \in 1..Len(keys1) |->
                              <<keys1[k], IF keys1[k] = ParametersKey THEN <<Q_q>>
                                          ELSE IF keys1[k] = Key_post THEN TaggedOp
                                          ELSE EmptyDict>>]>>,
          <<<<"/", "b">>, [k \in 1..Len(keys2) |-> <<keys2[k], EmptyDict>>]>>>>) :
        keys1 \in {<<Key_get, ParametersKey, Key_post>>,
                   <<Key_post, Key_ext, Key_get>>,
                   <<ParametersKey, Key_delete>>,
                   <<Key_GET, Key_ext>>,
                   <<>>},
        keys2 \in {<<Key_delete, Key_get>>, <<Key_get, Key_delete>>,
                   <<Key_ext>>, <<Key_GET, Key_post>>}}
    \cup {BaseDoc}

Documents ==
    UrlDocuments \cup BodyDocuments \cup SecurityDocuments
    \cup BaseUrlDocuments \cup KeyDocuments \cup HeaderBodyDocuments

-----------------------------------------------------------------------------
(* The state machine: one parser, constructed on a document, whose methods  *)
(* are called.                                                              *)

\* OpenAPIParser.__init__
Init ==
    /\ spec \in Documents
    /\ loaded = spec
    /\ base_url = BuildBaseUrl(spec)
    /\ returned = <<>>
    /\ probe = [fn |-> "none"]

\* one call of extract_endpoints: the list it returns and the document it
\* leaves behind
ExtractEndpoints ==
    /\ Len(returned) < MaxCalls
    /\ returned' = Append(returned, ExtractEndpointsResult(spec, base_url))
    /\ spec' = SpecAfterExtract(spec)
    /\ UNCHANGED <<loaded, base_url, probe>>

\* the (path, operation) pairs of the held document
Operations ==
    LET paths == Get(spec, "paths", <<>>)
    IN  UNION {{<<paths[i][1], paths[i][2][j][2]>> :
                   j \in {k \in 1..Len(paths[i][2]) :
                             paths[i][2][k][1] \in HttpMethods}} :
               i \in 1..Len(paths)}

\* one call of _build_url on an operation of the held document
CallBuildUrl ==
    \E po \in Operations :
        /\ probe' = [fn |-> "_build_url", path |-> po[1], operation |-> po[2],
                     result |-> BuildUrl(base_url, po[1], po[2])]
        /\ UNCHANGED <<spec, loaded, base_url, returned>>

\* one call of _get_security_headers
CallGetSecurityHeaders ==
    \E po \in Operations :
        /\ probe' = [fn |-> "_get_security_headers", operation |-> po[2],
                     result |-> GetSecurityHeaders(spec, po[2])]
        /\ UNCHANGED <<spec, loaded, base_url, returned>>

\* one call of _get_request_body
CallGetRequestBody ==
    \E po \in Operations :
        /\ probe' = [fn |-> "_get_request_body", operation |-> po[2],
                     result |-> GetRequestBody(spec, po[2])]
        /\ UNCHANGED <<spec, loaded, base_url, returned>>

Next ==
    \/ ExtractEndpoints
    \/ CallBuildUrl
    \/ CallGetSecurityHeaders
    \/ CallGetRequestBody

Spec == Init /\ [][Next]_vars

-----------------------------------------------------------------------------
(* Vocabulary of the properties, written from the document's point of view. *)

\* the seven method keys and their upper-case names
MethodName ==
    (<<"g", "e", "t">> :> <<"G", "E", "T">>)
    @@ (<<"p", "o", "s", "t">> :> <<"P", "O", "S", "T">>)
    @@ (<<"p", "u", "t">> :> <<"P", "U", "T">>)
    @@ (<<"p", "a", "t", "c", "h">> :> <<"P", "A", "T", "C", "H">>)
    @@ (<<"d", "e", "l", "e", "t", "e">> :> <<"D", "E", "L", "E", "T", "E">>)
    @@ (<<"h", "e", "a", "d">> :> <<"H", "E", "A", "D">>)
    @@ (<<"o", "p", "t", "i", "o", "n", "s">> :>
            <<"O", "P", "T", "I", "O", "N", "S">>)

IsMethodEntry(entry) == entry[1] \in DOMAIN MethodName
IsSharedParameters(entry) == entry[1] = ParametersKey

RECURSIVE Flatten(_)
Flatten(seqs) == IF seqs = <<>> THEN <<>> ELSE seqs[1] \o Flatten(Tail(seqs))

ParamsOf(operation) ==
    IF "parameters" \in DOMAIN operation THEN operation["parameters"] ELSE <<>>

\* the path-level shared parameters of a path item
SharedOf(path_item) ==
    LET shared == SelectSeq(path_item, IsSharedParameters)
    IN  IF shared = <<>> THEN <<>> ELSE shared[1][2]

\* every (path, method key) pair of a document, in document order
DeclaredOperations(doc) ==
    LET paths == IF "paths" \in DOMAIN doc THEN doc["paths"] ELSE <<>>
    IN  Flatten([i \in 1..Len(paths) |->
            LET entries == SelectSeq(paths[i][2], IsMethodEntry)
            IN  [j \in 1..Len(entries) |->
                    [path |-> paths[i][1],
                     key |-> entries[j][1],
                     shared |-> SharedOf(paths[i][2]),
                     operation |-> entries[j][2]]]])

IsIn(param, where) == "in" \in DOMAIN param /\ param["in"] = where
IsPathParam(param) == IsIn(param, "path")
IsQueryParam(param) == IsIn(param, "query")
IsBodyParam(param) == IsIn(param, "body")

-----------------------------------------------------------------------------
(* C1: the loaded document is read-only under extract_endpoints. *)

\* C1: after any number of extract_endpoints calls every operation's
\* `parameters` list in the held document equals what was loaded, and
\* every call returns the same endpoint sequence as the first call.
C1_DocumentReadOnly ==
    /\ \A n \in 1..Len(DeclaredOperations(loaded)) :
          ParamsOf(DeclaredOperations(spec)[n].operation)
              = ParamsOf(DeclaredOperations(loaded)[n].operation)
    /\ \A k \in 1..Len(returned) : returned[k] = returned[1]

-----------------------------------------------------------------------------
(* C2, C3: _build_url. *)

NameOf(param) == IF "name" \in DOMAIN param THEN param["name"] ELSE <<>>

\* the text a path parameter stands for: its example, else <name>
PathText(param) ==
    IF "example" \in DOMAIN param THEN ToStr(param["example"])
    ELSE <<"<">> \o NameOf(param) \o <<">">>

\* the text a query parameter stands for: example, else default, else <name>
QueryText(param) ==
    IF "example" \in DOMAIN param THEN ToStr(param["example"])
    ELSE IF "default" \in DOMAIN param THEN ToStr(param["default"])
    ELSE <<"<">> \o NameOf(param) \o <<">">>

PathEntries(parameters, name) ==
    {k \in 1..Len(parameters) :
        IsPathParam(parameters[k]) /\ NameOf(parameters[k]) = name}

PathNames(parameters) ==
    {NameOf(parameters[k]) : k \in {k \in 1..Len(parameters) :
                                       IsPathParam(parameters[k])}}

Min(S) == CHOOSE x \in S : \A y \in S : x <= y
Max(S) == CHOOSE x \in S : \A y \in S : x >= y

\* name -> text, taking for each name its first, or its last, path entry
FirstBinding(parameters) ==
    [n \in PathNames(parameters) |->
        PathText(parameters[Min(PathEntries(parameters, n))])]
LastBinding(parameters) ==
    [n \in PathNames(parameters) |->
        PathText(parameters[Max(PathEntries(parameters, n))])]

\* position of the first `c` in s, 0 when there is none
FirstIndex(s, c) ==
    IF \E k \in 1..Len(s) : s[k] = c
    THEN Min({k \in 1..Len(s) : s[k] = c}) ELSE 0

\* a template with every {name} of the binding replaced at once, in one
\* left-to-right pass; a brace that opens no bound name is kept
RECURSIVE Expand(_, _)
Expand(template, binding) ==
    IF template = <<>> THEN <<>>
    ELSE LET close == FirstIndex(template, "}")
             name == SubSeq(template, 2, close - 1)
         IN  IF template[1] = "{" /\ close > 0 /\ name \in DOMAIN binding
             THEN binding[name]
                  \o Expand(SubSeq(template, close + 1, Len(template)), binding)
             ELSE <<template[1]>> \o Expand(Tail(template), binding)

\* no parameter stands for a text with an opening brace in it
BraceFree(parameters) ==
    \A k \in 1..Len(parameters) :
        /\ ~Contains(PathText(parameters[k]), <<"{">>)
        /\ ~Contains(QueryText(parameters[k]), <<"{">>)

BuildUrlCalled == probe.fn = "_build_url"

C2_Case(name) ==
    LET parameters == ParamsOf(probe.operation)
    IN  /\ BraceFree(parameters)
        /\ PathEntries(parameters, name) # {}
        /\ "example" \in DOMAIN parameters[Min(PathEntries(parameters, name))]
        /\ Contains(probe.path, Braced(name))

QueryEntries(parameters) ==
    LET query == SelectSeq(parameters, IsQueryParam)
    IN  [k \in 1..Len(query) |->
            NameOf(query[k]) \o <<"=">> \o QueryText(query[k])]

\* what follows the first "?" of a URL
AfterFirstQuestionMark(url) ==
    SubSeq(url, FirstIndex(url, "?") + 1, Len(url))

\* C3 as stated: the query string of the URL lists exactly the query
\* parameters in declaration order as name=value joined by "&", and the URL
\* contains "?" iff there is at least one query parameter.
C3_QueryStringExact ==
    BuildUrlCalled =>
        LET entries == QueryEntries(ParamsOf(probe.operation))
        IN  /\ Contains(probe.result, <<"?">>) <=> entries # <<>>
            /\ entries # <<>> =>
                  AfterFirstQuestionMark(probe.result) = Join(entries, <<"&">>)

\* no "?" comes from the base URL, the path or a substituted path text
C3_PathPartPlain ==
    /\ ~Contains(base_url, <<"?">>)
    /\ ~Contains(probe.path, <<"?">>)
    /\ \A k \in 1..Len(ParamsOf(probe.operation)) :
          IsPathParam(ParamsOf(probe.operation)[k])
              => ~Contains(PathText(ParamsOf(probe.operation)[k]), <<"?">>)

\* C3 (amended): the URL ends with "?" followed by the query parameters in
\* declaration order, each as name=value joined by "&", whenever there is
\* at least one; and when the base URL, the path and the substituted path
\* texts hold no "?" of their own, the URL contains "?" iff there is at
\* least one query parameter and what follows its first "?" is exactly
\* that list.
C3_QuerySuffix ==
    BuildUrlCalled =>
        LET entries == QueryEntries(ParamsOf(probe.operation))
        IN  /\ entries # <<>> =>
                  EndsWith(probe.result, <<"?">> \o Join(entries, <<"&">>))
            /\ C3_PathPartPlain =>
                  /\ Contains(probe.result, <<"?">>) <=> entries # <<>>
                  /\ entries # <<>> =>
                        AfterFirstQuestionMark(probe.result)
                            = Join(entries, <<"&">>)

\* a call with two query parameters, one with an example and a default
C3_Witness ==
    /\ BuildUrlCalled
    /\ C3_PathPartPlain
    /\ Len(QueryEntries(ParamsOf(probe.operation))) >= 2
    /\ \E k \in 1..Len(ParamsOf(probe.operation)) :
          /\ IsQueryParam(ParamsOf(probe.operation)[k])
          /\ {"example", "default"} \subseteq DOMAIN ParamsOf(probe.operation)[k]
    /\ Contains(probe.result, <<"&">>)

-----------------------------------------------------------------------------
(* C4, C9: _get_request_body. *)

GetRequestBodyCalled == probe.fn = "_get_request_body"

BodyParamsOf(parameters) == SelectSeq(parameters, IsBodyParam)

\* C4: with two or more body parameters the result is the body the first
\* body parameter produces on its own (absent when it produces nothing);
\* no later body parameter contributes.
C4_FirstBodyParamDecides ==
    GetRequestBodyCalled =>
        LET bodies == BodyParamsOf(ParamsOf(probe.operation))
        IN  Len(bodies) >= 2 =>
                probe.result
                    = GetRequestBody(spec, "parameters" :> <<bodies[1]>>)

\* a body parameter whose schema refers to a definition that is not there
MissingRef(doc, param) ==
    /\ IsBodyParam(param)
    /\ "schema" \in DOMAIN param
    /\ "example" \notin DOMAIN param["schema"]
    /\ "$ref" \in DOMAIN param["schema"]
    /\ StartsWith(param["schema"]["$ref"], DefinitionsPrefix)
    /\ \/ "definitions" \notin DOMAIN doc
       \/ LastSegment(param["schema"]["$ref"], "/")
              \notin DOMAIN doc["definitions"]

\* the operation's parameters as merged by the first call
EffectiveParams(declared) == declared.shared \o ParamsOf(declared.operation)

C9_Case(n) ==
    LET bodies == BodyParamsOf(EffectiveParams(DeclaredOperations(loaded)[n]))
    IN  Len(bodies) = 1 /\ MissingRef(loaded, bodies[1])

\* C9: a body parameter that refers to a missing definition yields no
\* example; when it is the operation's only body parameter the endpoint is
\* still emitted, with no body and no `Content-Type: application/json`
\* header added to its security headers.
C9_MissingDefinitionDegrades ==
    /\ GetRequestBodyCalled =>
          LET bodies == BodyParamsOf(ParamsOf(probe.operation))
          IN  (\A k \in 1..Len(bodies) : MissingRef(spec, bodies[k]))
                  => probe.result = None
    /\ \A k \in 1..Len(returned) :
          \A n \in 1..Len(DeclaredOperations(loaded)) :
              C9_Case(n) =>
                  /\ Len(returned[k]) = Len(DeclaredOperations(loaded))
                  /\ returned[k][n].body = None
                  /\ \A i \in 1..Len(returned[k][n].headers) :
                         returned[k][n].headers[i]
                             # <<"Content-Type", "application/json">>

\* an endpoint was emitted for such an operation
C9_Witness ==
    /\ Len(returned) >= 1
    /\ \E n \in 1..Len(DeclaredOperations(loaded)) :
          C9_Case(n) /\ returned[1][n].body = None

-----------------------------------------------------------------------------
(* C5, C6: _get_security_headers. *)

GetSecurityHeadersCalled == probe.fn = "_get_security_headers"

OwnSecurity(operation) ==
    IF "security" \in DOMAIN operation THEN operation["security"] ELSE <<>>

\* the requirement list in force: the operation's, else the document's
RequirementList(doc, operation) ==
    IF Len(OwnSecurity(operation)) > 0 THEN OwnSecurity(operation)
    ELSE IF "security" \in DOMAIN doc THEN doc["security"] ELSE <<>>

\* the scheme names a requirement list mentions
NamedSchemes(requirements) ==
    UNION {{requirements[a][b][1] : b \in 1..Len(requirements[a])} :
           a \in 1..Len(requirements)}

SchemeTable(doc) ==
    IF "securityDefinitions" \in DOMAIN doc THEN doc["securityDefinitions"]
    ELSE <<>>

\* the schemes that stand for a header
ProducesHeader(doc, scheme) ==
    /\ scheme \in DOMAIN SchemeTable(doc)
    /\ "type" \in DOMAIN SchemeTable(doc)[scheme]
    /\ SchemeTable(doc)[scheme]["type"] = "apiKey"
    /\ "in" \in DOMAIN SchemeTable(doc)[scheme]
    /\ SchemeTable(doc)[scheme]["in"] = "header"

HeaderNameOf(doc, scheme) ==
    IF "name" \in DOMAIN SchemeTable(doc)[scheme]
    THEN SchemeTable(doc)[scheme]["name"] ELSE ""

\* the description spells B-e-a-r-e-r somewhere
MentionsBearer(doc, scheme) ==
    /\ "description" \in DOMAIN SchemeTable(doc)[scheme]
    /\ LET text == SchemeTable(doc)[scheme]["description"]
       IN  \E at \in 0..(Len(text) - 6) :
               /\ text[at + 1] = "B" /\ text[at + 2] = "e"
               /\ text[at + 3] = "a" /\ text[at + 4] = "r"
               /\ text[at + 5] = "e" /\ text[at + 6] = "r"

HeaderKeys(headers) == {headers[k][1] : k \in 1..Len(headers)}

HeaderNamesFrom(doc, requirements) ==
    {HeaderNameOf(doc, scheme) :
        scheme \in {x \in NamedSchemes(requirements) : ProducesHeader(doc, x)}}

\* C5: the headers come from the operation's `security` when it is present
\* and non-empty and from the document's otherwise, never from both: with a
\* non-empty operation `security` no header that only a document-level
\* requirement stands for is returned.
C5_OperationSecurityOverrides ==
    GetSecurityHeadersCalled =>
        /\ HeaderKeys(probe.result)
               = HeaderNamesFrom(spec, RequirementList(spec, probe.operation))
        /\ Len(OwnSecurity(probe.operation)) > 0 =>
               HeaderKeys(probe.result)
                   = HeaderNamesFrom(spec, OwnSecurity(probe.operation))

\* a call where the document's requirement stands for a header that the
\* operation's own, non-empty list does not
C5_Witness ==
    /\ GetSecurityHeadersCalled
    /\ Len(OwnSecurity(probe.operation)) > 0
    /\ probe.result # <<>>
    /\ "security" \in DOMAIN spec
    /\ HeaderNamesFrom(spec, spec["security"]) \ HeaderKeys(probe.result) # {}

\* C6: every entry of the returned mapping stems from a scheme that the
\* requirement list in force names, that the scheme table defines, and that
\* is an apiKey carried in a header; its key is the scheme's `name`, its
\* value "Bearer <your-token>" when the description contains "Bearer" and
\* "<your-token>" otherwise. Other schemes add no entry.
C6_HeaderEntries ==
    GetSecurityHeadersCalled =>
        \A k \in 1..Len(probe.result) :
            \E scheme \in NamedSchemes(RequirementList(spec, probe.operation)) :
                /\ ProducesHeader(spec, scheme)
                /\ probe.result[k][1] = HeaderNameOf(spec, scheme)
                /\ probe.result[k][2] =
                       IF MentionsBearer(spec, scheme) THEN "Bearer <your-token>"
                       ELSE "<your-token>"

\* a call that returned a Bearer entry and a plain one
C6_Witness ==
    /\ GetSecurityHeadersCalled
    /\ \E k \in 1..Len(probe.result) : probe.result[k][2] = "Bearer <your-token>"
    /\ \E k \in 1..Len(probe.result) : probe.result[k][2] = "<your-token>"

-----------------------------------------------------------------------------
(* C7, C8, C10: extract_endpoints. *)

\* C7: each call returns one endpoint per (path, method key) pair and none
\* for another key, in document order, with the key upper-cased as
\* `method` and the path key as `path`.
C7_OneEndpointPerMethodKey ==
    \A k \in 1..Len(returned) :
        LET declared == DeclaredOperations(loaded)
        IN  /\ Len(returned[k]) = Len(declared)
            /\ \A n \in 1..Len(declared) :
                  /\ returned[k][n].method = MethodName[declared[n].key]
                  /\ returned[k][n].path = declared[n].path

\* a call on a document with two paths, three or more operations and a key
\* that is no method
C7_Witness ==
    /\ Len(returned) >= 1
    /\ Len(returned[1]) >= 3
    /\ returned[1][1].path # returned[1][3].path
    /\ \E i \in 1..Len(loaded["paths"]) :
          \E j \in 1..Len(loaded["paths"][i][2]) :
              ~IsMethodEntry(loaded["paths"][i][2][j])

\* the scheme, host and basePath of a document as the claim reads them
SchemeOf(doc) ==
    IF "schemes" \in DOMAIN doc THEN doc["schemes"][1]
    ELSE <<"h", "t", "t", "p", "s">>
HostOf(doc) == IF "host" \in DOMAIN doc THEN doc["host"] ELSE <<>>
BasePathOf(doc) == IF "basePath" \in DOMAIN doc THEN doc["basePath"] ELSE <<>>

\* C8: for a path starting with "/", the url begins with
\* <scheme>://<host>, then the basePath without trailing slashes, then the
\* path (checked on paths without a {parameter}).
C8_AbsoluteUrl ==
    \A k \in 1..Len(returned) :
        \A n \in 1..Len(returned[k]) :
            LET path == returned[k][n].path
            IN  (path # <<>> /\ path[1] = "/" /\ ~Contains(path, <<"{">>))
                => StartsWith(returned[k][n].url,
                              SchemeOf(loaded) \o <<":", "/", "/">>
                              \o HostOf(loaded)
                              \o RStrip(BasePathOf(loaded), "/") \o path)

\* C10: when a path-level and an operation-level parameter are both
\* `in: path` with the same name, the merged list has the path-level one
\* first and the url carries the operation-level parameter's text for
\* {name} (checked on the first call, for texts without "{").
C10_OperationLevelWins ==
    Len(returned) >= 1 =>
        \A n \in 1..Len(DeclaredOperations(loaded)) :
            LET declared == DeclaredOperations(loaded)[n]
                own == ParamsOf(declared.operation)
                merged == declared.shared \o own
            IN  \A name \in PathNames(declared.shared) \cap PathNames(own) :
                    (BraceFree(merged) /\ Contains(declared.path, Braced(name)))
                    => /\ StartsWith(ParamsOf(DeclaredOperations(spec)[n].operation),
                                     merged)
                       /\ Contains(returned[1][n].url,
                                   Expand(declared.path, LastBinding(merged)))

-----------------------------------------------------------------------------
(* C11: the keys of a synthesized body. *)

SchemaOf(param) == IF "schema" \in DOMAIN param THEN param["schema"] ELSE <<>>

DefinitionTable(doc) ==
    IF "definitions" \in DOMAIN doc THEN doc["definitions"] ELSE <<>>

\* the schema refers into the definitions table
RefersToDefinition(schema) ==
    /\ "$ref" \in DOMAIN schema
    /\ StartsWith(schema["$ref"], DefinitionsPrefix)

\* the body of this parameter is built from the `properties` of the
\* definition it refers to
SynthesizedFromDefinition(doc, param) ==
    /\ IsBodyParam(param)
    /\ "example" \notin DOMAIN SchemaOf(param)
    /\ RefersToDefinition(SchemaOf(param))
    /\ LET name == LastSegment(SchemaOf(param)["$ref"], "/")
       IN  /\ name \in DOMAIN DefinitionTable(doc)
           /\ "example" \notin DOMAIN DefinitionTable(doc)[name]
           /\ "properties" \in DOMAIN DefinitionTable(doc)[name]

\* the body of this parameter is built from its inline `properties`
SynthesizedInline(param) ==
    /\ IsBodyParam(param)
    /\ "example" \notin DOMAIN SchemaOf(param)
    /\ ~RefersToDefinition(SchemaOf(param))
    /\ "$ref" \notin DOMAIN SchemaOf(param)
    /\ "type" \in DOMAIN SchemaOf(param)
    /\ SchemaOf(param)["type"] = "object"
    /\ "properties" \in DOMAIN SchemaOf(param)

\* the `properties` such a body is built from
SourceProperties(doc, param) ==
    IF SynthesizedInline(param) THEN SchemaOf(param)["properties"]
    ELSE DefinitionTable(doc)[LastSegment(SchemaOf(param)["$ref"], "/")]["properties"]

\* a key of the outermost object of JSON text written with indent=2 opens
\* a line with exactly two blanks before its quote
TopLevelKey(name) ==
    <<"\n", " ", " ", "\"">> \o name \o <<"\"", ":", " ">>

TopLevelKeyCount(text) ==
    Cardinality({at \in 1..Len(text) :
                    /\ at + 3 <= Len(text)
                    /\ SubSeq(text, at, at + 3) = <<"\n", " ", " ", "\"">>})

\* C11: a body synthesized from `properties` (of a referenced definition
\* or of an inline object) has exactly one key per property, whatever the
\* property's schema and the `required` list.
C11_EveryPropertyIncluded ==
    GetRequestBodyCalled =>
        LET bodies == BodyParamsOf(ParamsOf(probe.operation))
        IN  (/\ bodies # <<>>
             /\ \/ SynthesizedFromDefinition(spec, bodies[1])
                \/ SynthesizedInline(bodies[1]))
            => LET properties == SourceProperties(spec, bodies[1])
               IN  /\ probe.result # None
                   /\ TopLevelKeyCount(probe.result[1]) = Len(properties)
                   /\ \A k \in 1..Len(properties) :
                          Contains(probe.result[1], TopLevelKey(properties[k][1]))

-----------------------------------------------------------------------------
(* C12: the inline branch against the referenced branch. *)

\* the definitions that carry exactly these properties and no example
DefinitionsWith(doc, properties) ==
    {name \in DOMAIN DefinitionTable(doc) :
        /\ "example" \notin DOMAIN DefinitionTable(doc)[name]
        /\ "properties" \in DOMAIN DefinitionTable(doc)[name]
        /\ DefinitionTable(doc)[name]["properties"] = properties}

\* an operation whose only parameter is a body that refers to `name`
ReferringOperation(name) ==
    "parameters" :>
        <<("in" :> "body") @@ ("schema" :> ("$ref" :> DefinitionsPrefix \o name))>>

\* C12: an inline object body schema yields the same body as a body schema
\* that refers to a definition (without its own example) with the same
\* `properties`, array properties with a resolving `items.$ref` included.
C12_InlineEqualsReferenced ==
    GetRequestBodyCalled =>
        LET bodies == BodyParamsOf(ParamsOf(probe.operation))
        IN  (bodies # <<>> /\ SynthesizedInline(bodies[1]))
            => \A name \in DefinitionsWith(spec, SchemaOf(bodies[1])["properties"]) :
                   probe.result = GetRequestBody(spec, ReferringOperation(name))

-----------------------------------------------------------------------------
(* C13: the Content-Type header of an endpoint. *)

ContentTypeIsJson(endpoint) ==
    \E i \in 1..Len(endpoint.headers) :
        endpoint.headers[i] = <<"Content-Type", "application/json">>

\* the header names the security requirements of the n-th operation stand for
SecurityNames(n) ==
    HeaderNamesFrom(loaded,
        RequirementList(loaded, DeclaredOperations(loaded)[n].operation))

\* C13 as stated: Content-Type is application/json iff the body is
\* present, and when the body is present the Content-Type entry comes
\* after every other header of the mapping.
C13_ContentTypeLast ==
    \A k \in 1..Len(returned) :
        \A n \in 1..Len(returned[k]) :
            LET endpoint == returned[k][n]
            IN  /\ ContentTypeIsJson(endpoint) <=> endpoint.body # None
                /\ endpoint.body # None =>
                      endpoint.headers[Len(endpoint.headers)][1] = "Content-Type"

\* C13 (amended): Content-Type is application/json iff the body is
\* present; when the body is present and no security header is itself
\* named Content-Type, the entry is new and comes after all security
\* headers; when a security header is named Content-Type, that entry is
\* overwritten where it stands and no entry is added.
C13_ContentTypeAddedLast ==
    \A k \in 1..Len(returned) :
        \A n \in 1..Len(returned[k]) :
            LET endpoint == returned[k][n]
                headers == endpoint.headers
            IN  /\ ContentTypeIsJson(endpoint) <=> endpoint.body # None
                /\ (endpoint.body # None /\ "Content-Type" \notin SecurityNames(n))
                   => /\ Len(headers) = Cardinality(SecurityNames(n)) + 1
                      /\ headers[Len(headers)][1] = "Content-Type"
                      /\ \A i \in 1..(Len(headers) - 1) :
                            headers[i][1] \in SecurityNames(n)
                /\ (endpoint.body # None /\ "Content-Type" \in SecurityNames(n))
                   => /\ Len(headers) = Cardinality(SecurityNames(n))
                      /\ HeaderKeys(headers) = SecurityNames(n)

\* an endpoint with a body and two security headers, Content-Type last
C13_Witness ==
    /\ Len(returned) >= 1
    /\ \E n \in 1..Len(returned[1]) :
          /\ returned[1][n].body # None
          /\ "Content-Type" \notin SecurityNames(n)
          /\ Len(returned[1][n].headers) = 3
          /\ returned[1][n].headers[3] = <<"Content-Type", "application/json">>

====
